---- MODULE Spec2Model ----
(***************************************************************************)
(* The example notebook heterogeneous-node-classification-with-hashgnn     *)
(* as a state machine: one action per code cell, executed top to bottom,   *)
(* against the catalogs (graphs, pipelines, models) of the remote server   *)
(* the client library talks to.  An uncaught exception ends the run at     *)
(* the cell that raised it.                                                *)
(***************************************************************************)
EXTENDS Integers, Sequences, FiniteSets, TLC

\* Bounds of the model: the population of the loaded dataset and the
\* resolution in which a predicted probability is expressed.
MaxMovies == 2
MaxUnclassified == 1
ProbScale == 2

VARIABLES
    env,            \* os.environ: a mapping from the variable names that are set
    reachable,      \* whether a server answers at the connection target
    serverVersion,  \* the version the server reports
    dataset,        \* node population per label that load_imdb materialises
    graphCat,       \* server: graph catalog, name -> graph
    pipeCat,        \* server: pipeline catalog, name -> pipeline configuration
    modelCat,       \* server: model catalog, name -> model
    NEO4J_URI, NEO4J_AUTH, NEO4J_DB,     \* notebook globals of the connect cell
    gds,            \* the session, <<>> before it is constructed
    G, pipe, model, \* handles: the name of the server-side resource, or None
    trainSummary,   \* the value the train cell binds to `_`
    predictions,    \* the streamed prediction rows, <<>> before the predict cell
    pc,             \* the cell that runs next, "done" or "failed"
    err,            \* the uncaught exception that ended the run
    calls,          \* the remote calls issued so far, in order
    probe,          \* the last accessor call made between two cells
    awaiting        \* the calls sent whose response has not been received

envVars == <<env, reachable, serverVersion, dataset>>
serverVars == <<graphCat, pipeCat, modelCat>>
paramVars == <<NEO4J_URI, NEO4J_AUTH, NEO4J_DB>>
handleVars == <<G, pipe, model>>
vars == <<env, reachable, serverVersion, dataset, graphCat, pipeCat, modelCat,
          NEO4J_URI, NEO4J_AUTH, NEO4J_DB, gds, G, pipe, model, trainSummary,
          predictions, pc, err, calls, probe, awaiting>>

None == "None"
NoError == [cell |-> "", kind |-> ""]
NoProbe == [handle |-> "", result |-> ""]

-----------------------------------------------------------------------------
(* The process environment and the connection parameters read from it.     *)

EnvNames == {"NEO4J_URI", "NEO4J_DB", "NEO4J_USER", "NEO4J_PASSWORD"}

EnvValues(k) ==
    CASE k = "NEO4J_URI" -> {"neo4j://graph.example:7687"}
      [] k = "NEO4J_DB" -> {"movies"}
      [] k = "NEO4J_USER" -> {"", "alice"}
      [] k = "NEO4J_PASSWORD" -> {"", "s3cret"}

EnvStrings == UNION {EnvValues(k) : k \in EnvNames}

Environments ==
    UNION {{e \in [D -> EnvStrings] : \A k \in D : e[k] \in EnvValues(k)} : D \in SUBSET EnvNames}

\* os.environ.get(k, default)
EnvGet(e, k, default) == IF k \in DOMAIN e THEN e[k] ELSE default

\* bool(os.environ.get(k)): None and the empty string are false
EnvTruthy(e, k) == k \in DOMAIN e /\ e[k] # ""

DefaultURI == "bolt://localhost:7687"
DefaultDB == "neo4j"

ReadURI(e) == EnvGet(e, "NEO4J_URI", DefaultURI)
ReadDB(e) == EnvGet(e, "NEO4J_DB", DefaultDB)
\* Tests that both variables are set, not that they are non-empty.
ReadAuthWhenSet(e) ==
    IF "NEO4J_USER" \in DOMAIN e /\ "NEO4J_PASSWORD" \in DOMAIN e
    THEN <<e["NEO4J_USER"], e["NEO4J_PASSWORD"]>>
    ELSE <<>>

ReadAuth(e) ==
    IF EnvTruthy(e, "NEO4J_USER") /\ EnvTruthy(e, "NEO4J_PASSWORD")
    THEN <<e["NEO4J_USER"], e["NEO4J_PASSWORD"]>>
    ELSE <<>>

-----------------------------------------------------------------------------
(* Server versions.                                                        *)

ServerVersions == {<<1, 9, 9>>, <<2, 4, 9>>, <<2, 5, 0>>, <<3, 0, 0>>}
MinVersion == <<2, 5, 0>>

\* ServerVersion.__ge__: major, then minor, then patch
VersionGE(a, b) ==
    \/ a[1] > b[1]
    \/ a[1] = b[1] /\ a[2] > b[2]
    \/ a[1] = b[1] /\ a[2] = b[2] /\ a[3] >= b[3]

\* Asserts a version strictly above the minimum.
VersionAssertionStrict(v) == VersionGE(v, MinVersion) /\ v # MinVersion

VersionAssertion(v) == VersionGE(v, MinVersion)

-----------------------------------------------------------------------------
(* The server side: the example dataset and the graph catalog.             *)

Labels == {"Movie", "UnclassifiedMovie", "Actor", "Director"}
RelTypes == {"ACTED_IN", "DIRECTED_IN"}
Genres == {0, 1}

NodesOf(l, n) == {<<l, i>> : i \in 1..n}

\* The populations a loaded dataset may have: at least one classified movie,
\* one actor and one director.
Datasets ==
    {[l \in Labels |-> CASE l = "Movie" -> NodesOf(l, m)
                         [] l = "UnclassifiedMovie" -> NodesOf(l, u)
                         [] OTHER -> NodesOf(l, 1)] :
        m \in 1..MaxMovies, u \in 0..MaxUnclassified}

GraphName == "imdb"
PipeName == "genre-predictor-pipe"
ModelName == "genre-predictor-model"

EmptyCat == [n \in {} |-> {}]
Put(cat, name, r) == [n \in DOMAIN cat \cup {name} |-> IF n = name THEN r ELSE cat[n]]
\* A release that leaves the resource in the catalog.
RemoveNothing(cat, name) == cat

Remove(cat, name) == [n \in DOMAIN cat \ {name} |-> cat[n]]

\* The graph load_imdb projects: every label carries plot_keywords, the
\* classified label alone carries genre.
ImdbGraph(ds) ==
    [nodes |-> ds,
     relTypes |-> RelTypes,
     props |-> [l \in Labels |-> IF l = "Movie" THEN {"plot_keywords", "genre"}
                                 ELSE {"plot_keywords"}]]

NodeLabels(g) == DOMAIN g.nodes
RelationshipTypes(g) == g.relTypes
NodeProperties(g) == g.props

\* What the server answers to a call on a named resource: a resource that is
\* not in its catalog is reported as not found, any other call may succeed
\* or be reported as failed.
Responses(found) == IF found THEN {"ok", "ServerError"} ELSE {"NotFound"}

-----------------------------------------------------------------------------
(* The server side: pipeline configuration.                                *)

EmptyPipeline == [testFraction |-> <<>>, steps |-> <<>>, features |-> <<>>, candidates |-> <<>>]

ConfigureSplitOp(p, f) == [p EXCEPT !.testFraction = <<f>>]
AddNodePropertyOp(p, step) == [p EXCEPT !.steps = Append(@, step)]
SelectFeaturesOp(p, f) == [p EXCEPT !.features = Append(@, f)]
AddCandidateOp(p, c) == [p EXCEPT !.candidates = Append(@, c)]

\* The arguments the notebook passes.  Decimals are in units of 1/10000; a
\* hyperparameter is <<v>> for a literal and <<lo, hi>> for a range.
\* 0.0796 for 0.796.
TestFractionSlip == 7960 \div 10

TestFraction == 7960

\* The embedding step writing its output to the target property.
HashGnnStepOntoGenre(contextLabels) ==
    [procedure |-> "hashgnn",
     mutateProperty |-> "genre",
     iterations |-> 4,
     heterogeneous |-> TRUE,
     embeddingDensity |-> 512,
     neighborInfluence |-> 7000,
     featureProperties |-> <<"plot_keywords">>,
     randomSeed |-> 41,
     contextNodeLabels |-> contextLabels]

HashGnnStep(contextLabels) ==
    [procedure |-> "hashgnn",
     mutateProperty |-> "embedding",
     iterations |-> 4,
     heterogeneous |-> TRUE,
     embeddingDensity |-> 512,
     neighborInfluence |-> 7000,
     featureProperties |-> <<"plot_keywords">>,
     randomSeed |-> 41,
     contextNodeLabels |-> contextLabels]

SelectedFeature == "embedding"

\* penalty=(0.1, 10.0) for (0.1, 1.0).
LogisticRegressionWideRange ==
    [kind |-> "LogisticRegression",
     params |-> [penalty |-> <<1000, 100000>>, maxEpochs |-> <<1000>>, patience |-> <<5>>,
                 tolerance |-> <<1>>, learningRate |-> <<100>>]]

LogisticRegressionSpec ==
    [kind |-> "LogisticRegression",
     params |-> [penalty |-> <<1000, 10000>>, maxEpochs |-> <<1000>>, patience |-> <<5>>,
                 tolerance |-> <<1>>, learningRate |-> <<100>>]]

RandomForestSpec ==
    [kind |-> "RandomForest",
     params |-> [minSplitSize |-> <<2, 100>>, criterion |-> <<"ENTROPY">>]]

TrainTargetLabels == {"Movie"}
TrainTargetProperty == "genre"
TrainMetrics == {"F1_MACRO"}

\* Prediction over every movie, classified or not.
PredictAllMovies == {"Movie", "UnclassifiedMovie"}

PredictTargetLabels == {"UnclassifiedMovie"}
IncludePredictedProbabilities == TRUE

-----------------------------------------------------------------------------
(* The server side: training and prediction.                               *)

\* The server accepts a training call only for a pipeline with a split, at
\* least one feature and at least one candidate, on labels of the graph that
\* carry the target property.
Trainable(g, p, labels, prop) ==
    /\ Len(p.testFraction) = 1
    /\ Len(p.features) > 0
    /\ Len(p.candidates) > 0
    /\ labels \subseteq NodeLabels(g)
    /\ \A l \in labels : prop \in g.props[l]

Population(g, labels) == UNION {g.nodes[l] : l \in labels}

\* The sizes the held-out set may have: the test fraction of the population,
\* rounded down or up.
TestSetSizes(n, f) == {(n * f) \div 10000, (n * f + 9999) \div 10000}

TestSets(pop, f) == {T \in SUBSET pop : Cardinality(T) \in TestSetSizes(Cardinality(pop), f)}

SplitOf(pop, T) == [trainSet |-> pop \ T, testSet |-> T]

\* The values the automatic search may settle on for a range.
SearchGrid(range) == {range[1], (range[1] + range[2]) \div 2, range[2]}

Ranged(params) == {k \in DOMAIN params : Len(params[k]) = 2}

Searches(params) ==
    {s \in [Ranged(params) -> UNION {SearchGrid(params[k]) : k \in Ranged(params)}] :
        \A k \in Ranged(params) : s[k] \in SearchGrid(params[k])}

Resolve(params, s) == [k \in DOMAIN params |-> IF k \in Ranged(params) THEN s[k] ELSE params[k][1]]

TrainedModel(p, c, s, prop, metrics) ==
    [kind |-> c.kind,
     bestParameters |-> Resolve(c.params, s),
     metrics |-> metrics,
     targetProperty |-> prop,
     features |-> p.features]

\* The graph once the node-property steps have run: each step's property is
\* on its context labels.
WithStepProperties(g, steps) ==
    [g EXCEPT !.props =
        [l \in DOMAIN g.props |->
            g.props[l] \cup {steps[i].mutateProperty :
                                i \in {j \in 1..Len(steps) : l \in steps[j].contextNodeLabels}}]]

\* Training that uses its pipeline up.
PipelinesConsumed(cat, name) == Remove(cat, name)

\* Training reads the pipeline configuration and leaves the catalog as it is.
PipelinesAfterTraining(cat, name) == cat

GraphAfterTraining(g, p, keep) == IF keep THEN WithStepProperties(g, p.steps) ELSE g

Predictable(g, labels) == labels \subseteq NodeLabels(g)

RECURSIVE SumOver(_, _)
SumOver(f, S) == IF S = {} THEN 0 ELSE LET x == CHOOSE y \in S : TRUE IN f[x] + SumOver(f, S \ {x})

\* Class probabilities in units of 1/ProbScale.
Distributions == {d \in [Genres -> 0..ProbScale] : SumOver(d, Genres) = ProbScale}

RowValues(withProbabilities) ==
    IF withProbabilities
    THEN [predictedClass : Genres, predictedProbabilities : Distributions]
    ELSE [predictedClass : Genres]

\* One row for each node of the target population.
PredictionRows(targets, v) ==
    {[nodeId |-> n] @@ v[n] : n \in targets}

-----------------------------------------------------------------------------
(* The notebook: its code cells in order. A cell that makes two remote      *)
(* calls is two entries, one per call, in the order Python evaluates them. *)

\* The train cell placed before feature selection and the candidates.
CellOrderTrainEarly ==
    <<"connect", "verify_version", "load_imdb", "inspect", "inspect_relationship_types",
      "node_properties", "create_pipeline", "configure_split", "context_node_labels",
      "add_node_property", "train", "select_features",
      "add_logistic_regression", "add_random_forest", "metrics",
      "best_parameters", "predict", "drop_graph", "drop_pipeline", "drop_model">>

\* The graph released before the prediction call that streams from it.
CellOrderDropEarly ==
    <<"connect", "verify_version", "load_imdb", "inspect", "inspect_relationship_types",
      "node_properties", "create_pipeline", "configure_split", "context_node_labels",
      "add_node_property", "select_features",
      "add_logistic_regression", "add_random_forest", "train", "metrics",
      "best_parameters", "drop_graph", "predict", "drop_pipeline", "drop_model">>

CellOrder ==
    <<"connect", "verify_version", "load_imdb", "inspect", "inspect_relationship_types",
      "node_properties", "create_pipeline", "configure_split", "context_node_labels",
      "add_node_property", "select_features",
      "add_logistic_regression", "add_random_forest", "train", "metrics",
      "best_parameters", "predict", "drop_graph", "drop_pipeline", "drop_model">>

Cells == {CellOrder[i] : i \in 1..Len(CellOrder)}
Position(c) == CHOOSE i \in 1..Len(CellOrder) : CellOrder[i] = c
NextCell(c) == IF Position(c) = Len(CellOrder) THEN "done" ELSE CellOrder[Position(c) + 1]

\* The run goes on with the next cell after an exception.
OnErrorContinue(c) == NextCell(c)

\* An exception nothing catches ends the run at its cell.
OnError(c) == "failed"

Raise(kind) == pc' = OnError(pc) /\ err' = [cell |-> pc, kind |-> kind]
Proceed == pc' = NextCell(pc) /\ err' = err

NewSession(uri, auth, db, version) == [uri |-> uri, auth |-> auth, database |-> db, version |-> version]

Init ==
    /\ env \in Environments
    /\ reachable \in BOOLEAN
    /\ serverVersion \in ServerVersions
    /\ dataset \in Datasets
    /\ graphCat = EmptyCat /\ pipeCat = EmptyCat /\ modelCat = EmptyCat
    /\ NEO4J_URI = None /\ NEO4J_AUTH = <<>> /\ NEO4J_DB = None
    /\ gds = <<>>
    /\ G = None /\ pipe = None /\ model = None
    /\ trainSummary = <<>>
    /\ predictions = <<>>
    /\ pc = CellOrder[1]
    /\ err = NoError
    /\ calls = <<>>
    /\ probe = NoProbe
    /\ awaiting = <<>>

Connect ==
    /\ pc = "connect"
    /\ NEO4J_URI' = ReadURI(env)
    /\ NEO4J_AUTH' = ReadAuth(env)
    /\ NEO4J_DB' = ReadDB(env)
    /\ calls' = Append(calls, "GraphDataScience")
    /\ IF reachable
       THEN gds' = <<NewSession(ReadURI(env), ReadAuth(env), ReadDB(env), serverVersion)>> /\ Proceed
       ELSE gds' = gds /\ Raise("ConnectionError")
    /\ probe' = NoProbe /\ awaiting' = <<>>
    /\ UNCHANGED <<envVars, serverVars, handleVars, trainSummary, predictions>>

VerifyVersion ==
    /\ pc = "verify_version"
    /\ calls' = Append(calls, "gds.server_version")
    /\ IF VersionAssertion(gds[1].version) THEN Proceed ELSE Raise("AssertionError")
    /\ probe' = NoProbe /\ awaiting' = <<>>
    /\ UNCHANGED <<envVars, serverVars, paramVars, gds, handleVars, trainSummary, predictions>>

LoadImdb ==
    /\ pc = "load_imdb"
    /\ calls' = Append(calls, "gds.graph.load_imdb")
    /\ \E r \in Responses(TRUE) :
          IF r = "ok"
          THEN /\ graphCat' = Put(graphCat, GraphName, ImdbGraph(dataset))
               /\ G' = GraphName
               /\ Proceed
          ELSE UNCHANGED <<graphCat, G>> /\ Raise(r)
    /\ probe' = NoProbe /\ awaiting' = <<>>
    /\ UNCHANGED <<envVars, pipeCat, modelCat, paramVars, gds, pipe, model, trainSummary, predictions>>

\* A read accessor of the graph handle.
GraphRead(cell, call) ==
    /\ pc = cell
    /\ calls' = Append(calls, call)
    /\ \E r \in Responses(G \in DOMAIN graphCat) : IF r = "ok" THEN Proceed ELSE Raise(r)
    /\ probe' = NoProbe /\ awaiting' = <<>>
    /\ UNCHANGED <<envVars, serverVars, paramVars, gds, handleVars, trainSummary, predictions>>

Inspect == GraphRead("inspect", "G.node_labels")

InspectRelationshipTypes == GraphRead("inspect_relationship_types", "G.relationship_types")

NodePropertiesCell == GraphRead("node_properties", "G.node_properties")

CreatePipeline ==
    /\ pc = "create_pipeline"
    /\ calls' = Append(calls, "nodeClassification.create")
    /\ \E r \in Responses(TRUE) :
          IF r = "ok"
          THEN /\ pipeCat' = Put(pipeCat, PipeName, EmptyPipeline)
               /\ pipe' = PipeName
               /\ Proceed
          ELSE UNCHANGED <<pipeCat, pipe>> /\ Raise(r)
    /\ probe' = NoProbe /\ awaiting' = <<>>
    /\ UNCHANGED <<envVars, graphCat, modelCat, paramVars, gds, G, model, trainSummary, predictions>>

\* A configuration call: one remote mutation of the named pipeline, which
\* becomes `configured` when the server accepts it.
Configure(cell, call, configured) ==
    /\ pc = cell
    /\ calls' = Append(calls, call)
    /\ \E r \in Responses(pipe \in DOMAIN pipeCat) :
          IF r = "ok"
          THEN pipeCat' = [pipeCat EXCEPT ![pipe] = configured] /\ Proceed
          ELSE UNCHANGED pipeCat /\ Raise(r)
    /\ probe' = NoProbe /\ awaiting' = <<>>
    /\ UNCHANGED <<envVars, graphCat, modelCat, paramVars, gds, handleVars, trainSummary, predictions>>

ConfigureSplit ==
    Configure("configure_split", "pipe.configureSplit", ConfigureSplitOp(pipeCat[pipe], TestFraction))

\* The argument contextNodeLabels=G.node_labels() is evaluated, by a call of
\* its own, before the configuration call that carries it.
ContextNodeLabels == GraphRead("context_node_labels", "G.node_labels")

AddNodeProperty ==
    Configure("add_node_property", "pipe.addNodeProperty",
              AddNodePropertyOp(pipeCat[pipe], HashGnnStep(NodeLabels(graphCat[G]))))

SelectFeatures ==
    Configure("select_features", "pipe.selectFeatures", SelectFeaturesOp(pipeCat[pipe], SelectedFeature))

AddLogisticRegression ==
    Configure("add_logistic_regression", "pipe.addLogisticRegression",
              AddCandidateOp(pipeCat[pipe], LogisticRegressionSpec))

AddRandomForest ==
    Configure("add_random_forest", "pipe.addRandomForest", AddCandidateOp(pipeCat[pipe], RandomForestSpec))

TrainResponses ==
    IF ~(pipe \in DOMAIN pipeCat /\ G \in DOMAIN graphCat) THEN {"NotFound"}
    ELSE IF Trainable(graphCat[G], pipeCat[pipe], TrainTargetLabels, TrainTargetProperty)
         THEN {"ok", "ServerError"}
         ELSE {"ServerError"}

Train ==
    /\ pc = "train"
    /\ calls' = Append(calls, "pipe.train")
    /\ \E r \in TrainResponses :
          IF r = "ok"
          THEN LET g == graphCat[G]
                   p == pipeCat[pipe]
                   pop == Population(g, TrainTargetLabels)
               IN \E i \in 1..Len(p.candidates), keep \in BOOLEAN :
                  \E s \in Searches(p.candidates[i].params), T \in TestSets(pop, p.testFraction[1]) :
                     /\ modelCat' = Put(modelCat, ModelName,
                                        TrainedModel(p, p.candidates[i], s, TrainTargetProperty, TrainMetrics))
                     /\ graphCat' = [graphCat EXCEPT ![G] = GraphAfterTraining(g, p, keep)]
                     /\ pipeCat' = PipelinesAfterTraining(pipeCat, pipe)
                     /\ model' = ModelName
                     /\ trainSummary' = <<SplitOf(pop, T)>>
                     /\ Proceed
          ELSE UNCHANGED <<modelCat, graphCat, pipeCat, model, trainSummary>> /\ Raise(r)
    /\ probe' = NoProbe /\ awaiting' = <<>>
    /\ UNCHANGED <<envVars, paramVars, gds, G, pipe, predictions>>

\* A read accessor of the model handle.
ModelAccessor(cell, call) ==
    /\ pc = cell
    /\ calls' = Append(calls, call)
    /\ \E r \in Responses(model \in DOMAIN modelCat) : IF r = "ok" THEN Proceed ELSE Raise(r)
    /\ probe' = NoProbe /\ awaiting' = <<>>
    /\ UNCHANGED <<envVars, serverVars, paramVars, gds, handleVars, trainSummary, predictions>>

Metrics == ModelAccessor("metrics", "model.metrics")

BestParameters == ModelAccessor("best_parameters", "model.best_parameters")

PredictResponses ==
    IF ~(model \in DOMAIN modelCat /\ G \in DOMAIN graphCat) THEN {"NotFound"}
    ELSE IF Predictable(graphCat[G], PredictTargetLabels) THEN {"ok", "ServerError"}
         ELSE {"ServerError"}

PredictStream ==
    /\ pc = "predict"
    /\ calls' = Append(calls, "model.predict_stream")
    /\ \E r \in PredictResponses :
          IF r = "ok"
          THEN LET targets == Population(graphCat[G], PredictTargetLabels)
               IN \E v \in [targets -> RowValues(IncludePredictedProbabilities)] :
                     predictions' = <<PredictionRows(targets, v)>> /\ Proceed
          ELSE UNCHANGED predictions /\ Raise(r)
    /\ probe' = NoProbe /\ awaiting' = <<>>
    /\ UNCHANGED <<envVars, serverVars, paramVars, gds, handleVars, trainSummary>>

GDrop ==
    /\ pc = "drop_graph"
    /\ calls' = Append(calls, "G.drop")
    /\ \E r \in Responses(G \in DOMAIN graphCat) :
          IF r = "ok"
          THEN graphCat' = Remove(graphCat, G) /\ trainSummary' = <<>> /\ Proceed
          ELSE UNCHANGED <<graphCat, trainSummary>> /\ Raise(r)
    /\ probe' = NoProbe /\ awaiting' = <<>>
    /\ UNCHANGED <<envVars, pipeCat, modelCat, paramVars, gds, handleVars, predictions>>

PipeDrop ==
    /\ pc = "drop_pipeline"
    /\ calls' = Append(calls, "pipe.drop")
    /\ \E r \in Responses(pipe \in DOMAIN pipeCat) :
          IF r = "ok"
          THEN pipeCat' = Remove(pipeCat, pipe) /\ Proceed
          ELSE UNCHANGED pipeCat /\ Raise(r)
    /\ probe' = NoProbe /\ awaiting' = <<>>
    /\ UNCHANGED <<envVars, graphCat, modelCat, paramVars, gds, handleVars, trainSummary, predictions>>

ModelDrop ==
    /\ pc = "drop_model"
    /\ calls' = Append(calls, "model.drop")
    /\ \E r \in Responses(model \in DOMAIN modelCat) :
          IF r = "ok"
          THEN modelCat' = Remove(modelCat, model) /\ Proceed
          ELSE UNCHANGED modelCat /\ Raise(r)
    /\ probe' = NoProbe /\ awaiting' = <<>>
    /\ UNCHANGED <<envVars, graphCat, pipeCat, paramVars, gds, handleVars, trainSummary, predictions>>

Next ==
    \/ Connect
    \/ VerifyVersion
    \/ LoadImdb
    \/ Inspect
    \/ InspectRelationshipTypes
    \/ NodePropertiesCell
    \/ CreatePipeline
    \/ ConfigureSplit
    \/ ContextNodeLabels
    \/ AddNodeProperty
    \/ SelectFeatures
    \/ AddLogisticRegression
    \/ AddRandomForest
    \/ Train
    \/ Metrics
    \/ BestParameters
    \/ PredictStream
    \/ GDrop
    \/ PipeDrop
    \/ ModelDrop

Spec == Init /\ [][Next]_vars

-----------------------------------------------------------------------------
(* Accessor calls on the handles the notebook holds, made between its      *)
(* cells: each is a fresh round trip answered from the server's catalog.   *)

Accessor(handle, name, cat) ==
    /\ name # None
    /\ \E r \in Responses(name \in DOMAIN cat) : probe' = [handle |-> handle, result |-> r]
    /\ UNCHANGED <<envVars, serverVars, paramVars, gds, handleVars, trainSummary, predictions,
                   pc, err, calls, awaiting>>

GraphAccessor == Accessor("G", G, graphCat)
PipelineAccessor == Accessor("pipe", pipe, pipeCat)
ModelAccessorCall == Accessor("model", model, modelCat)

\* The handles do not depend on the connection parameters: the environment
\* is left unset.
ProbeInit == Init /\ DOMAIN env = {}

ProbeNext == Next \/ GraphAccessor \/ PipelineAccessor \/ ModelAccessorCall

ProbeSpec == ProbeInit /\ [][ProbeNext]_vars

-----------------------------------------------------------------------------
(* The notebook with every remote call taken apart into the request that   *)
(* reaches the server and the response that lets the cell complete.        *)

\* The remote call each cell entry makes.
CallOf ==
    [c \in Cells |->
        CASE c = "connect" -> "GraphDataScience"
          [] c = "verify_version" -> "gds.server_version"
          [] c = "load_imdb" -> "gds.graph.load_imdb"
          [] c = "inspect" -> "G.node_labels"
          [] c = "inspect_relationship_types" -> "G.relationship_types"
          [] c = "node_properties" -> "G.node_properties"
          [] c = "create_pipeline" -> "nodeClassification.create"
          [] c = "configure_split" -> "pipe.configureSplit"
          [] c = "context_node_labels" -> "G.node_labels"
          [] c = "add_node_property" -> "pipe.addNodeProperty"
          [] c = "select_features" -> "pipe.selectFeatures"
          [] c = "add_logistic_regression" -> "pipe.addLogisticRegression"
          [] c = "add_random_forest" -> "pipe.addRandomForest"
          [] c = "train" -> "pipe.train"
          [] c = "metrics" -> "model.metrics"
          [] c = "best_parameters" -> "model.best_parameters"
          [] c = "predict" -> "model.predict_stream"
          [] c = "drop_graph" -> "G.drop"
          [] c = "drop_pipeline" -> "pipe.drop"
          [] c = "drop_model" -> "model.drop"]

\* A call goes out while another is still unanswered.
SendWhileAwaiting == Len(awaiting) < 2

\* Every call is a plain call expression whose value the statement binds or
\* prints: the interpreter reaches the next call only when this one returned.
SendGuard == awaiting = <<>>

Send ==
    /\ pc \in Cells
    /\ SendGuard
    /\ awaiting' = Append(awaiting, CallOf[pc])
    /\ UNCHANGED <<envVars, serverVars, paramVars, gds, handleVars, trainSummary, predictions,
                   pc, err, calls, probe>>

\* The response arrives: the cell's step, as in Next, completes the call.
Receive == awaiting # <<>> /\ Next

CallNext == Send \/ Receive

CallSpec == ProbeInit /\ [][CallNext]_vars

-----------------------------------------------------------------------------
(* Properties.                                                             *)

AtLeast250(v) == v[1] > 2 \/ (v[1] = 2 /\ v[2] > 5) \/ (v[1] = 2 /\ v[2] = 5 /\ v[3] >= 0)

SetupDecided == pc \notin {"connect", "verify_version"}
SetupSucceeded == gds # <<>> /\ err.cell \notin {"connect", "verify_version"}

\* C1: once the connect cell and the version assertion have run, the session
\* is established and accepted if and only if the server is reachable and
\* reports a version at or above 2.5.0; an unreachable target ends the run at
\* the connect cell with a connection error, and a version below 2.5.0 ends
\* it at the version assertion (the compatibility error, an AssertionError).
C1_SessionEstablishment ==
    SetupDecided =>
        /\ SetupSucceeded <=> (reachable /\ AtLeast250(serverVersion))
        /\ ~reachable =>
              pc = "failed" /\ gds = <<>> /\ err = [cell |-> "connect", kind |-> "ConnectionError"]
        /\ (reachable /\ ~AtLeast250(serverVersion)) =>
              pc = "failed" /\ err = [cell |-> "verify_version", kind |-> "AssertionError"]

\* A reachable server of version 1.9.9 (a higher minor, a lower major) is refused.
C1_Witness ==
    /\ reachable /\ serverVersion = <<1, 9, 9>>
    /\ pc = "failed" /\ err.kind = "AssertionError"

Set(k) == k \in DOMAIN env

\* C8: after the connect cell the URI is NEO4J_URI, or bolt://localhost:7687
\* when that variable is unset; the database is NEO4J_DB, or neo4j when unset;
\* the credential pair is (NEO4J_USER, NEO4J_PASSWORD) exactly when both are
\* set and non-empty and is absent otherwise; and a session that was
\* established was given these three values.
C8_ConnectionParameters ==
    pc # "connect" =>
        /\ NEO4J_URI = IF Set("NEO4J_URI") THEN env["NEO4J_URI"] ELSE "bolt://localhost:7687"
        /\ NEO4J_DB = IF Set("NEO4J_DB") THEN env["NEO4J_DB"] ELSE "neo4j"
        /\ IF Set("NEO4J_USER") /\ Set("NEO4J_PASSWORD")
              /\ env["NEO4J_USER"] # "" /\ env["NEO4J_PASSWORD"] # ""
           THEN NEO4J_AUTH = <<env["NEO4J_USER"], env["NEO4J_PASSWORD"]>>
           ELSE NEO4J_AUTH = <<>>
        /\ gds # <<>> =>
              /\ gds[1].uri = NEO4J_URI
              /\ gds[1].auth = NEO4J_AUTH
              /\ gds[1].database = NEO4J_DB

\* A session built with no credentials although NEO4J_USER is set, because
\* NEO4J_PASSWORD is set to the empty string.
C8_Witness ==
    /\ gds # <<>>
    /\ Set("NEO4J_USER") /\ env["NEO4J_USER"] = "alice"
    /\ Set("NEO4J_PASSWORD") /\ env["NEO4J_PASSWORD"] = ""
    /\ gds[1].auth = <<>>
    /\ ~Set("NEO4J_URI") /\ gds[1].uri = "bolt://localhost:7687"

SetupCalls == {"GraphDataScience", "gds.server_version"}

\* C10: once a step has failed no further remote call is issued and the run
\* stays ended at the cell that failed; and every call after the version
\* check (load, introspection, pipeline, training, prediction, release) was
\* issued with a reachable server whose version passed the assertion.
C10_FailureEndsRun ==
    /\ [](err # NoError => pc = "failed")
    /\ [](\A i \in 1..Len(calls) :
            calls[i] \notin SetupCalls => reachable /\ AtLeast250(serverVersion))
    /\ [][err # NoError => calls' = calls /\ err' = err]_vars

\* The training call returned an error after thirteen calls had run.
C10_Witness ==
    /\ pc = "failed" /\ err = [cell |-> "train", kind |-> "ServerError"]
    /\ calls[Len(calls)] = "pipe.train"
    /\ model = None

Issued(call) == \E i \in 1..Len(calls) : calls[i] = call
IssuedBefore(early, i) == \E j \in 1..(i - 1) : calls[j] \in early

\* C3: when the train cell is about to run, the pipeline holds at least one
\* selected feature and at least one candidate model, and every pipe.train
\* in the call sequence comes after a selectFeatures call and after an
\* addLogisticRegression or addRandomForest call.
C3_TrainAfterFeaturesAndCandidates ==
    /\ pc = "train" =>
          /\ pipe \in DOMAIN pipeCat
          /\ Len(pipeCat[pipe].features) >= 1
          /\ Len(pipeCat[pipe].candidates) >= 1
    /\ \A i \in 1..Len(calls) :
          calls[i] = "pipe.train" =>
              /\ IssuedBefore({"pipe.selectFeatures"}, i)
              /\ IssuedBefore({"pipe.addLogisticRegression", "pipe.addRandomForest"}, i)

\* Training was invoked and returned a model.
C3_Witness ==
    /\ calls # <<>> /\ calls[Len(calls)] = "pipe.train"
    /\ model \in DOMAIN modelCat
    /\ Len(pipeCat[pipe].candidates) = 2

GraphLoaded == G \in DOMAIN graphCat

\* C4: while the loaded graph exists its labels are Movie, UnclassifiedMovie,
\* Actor and Director and its relationship types ACTED_IN and DIRECTED_IN, no
\* step changes either set, and genre is a property of Movie and of no other
\* label.
C4_GraphSchemaFixed ==
    /\ [](GraphLoaded =>
            /\ NodeLabels(graphCat[G]) = {"Movie", "UnclassifiedMovie", "Actor", "Director"}
            /\ RelationshipTypes(graphCat[G]) = {"ACTED_IN", "DIRECTED_IN"}
            /\ \A l \in DOMAIN graphCat[G].props : "genre" \in graphCat[G].props[l] <=> l = "Movie")
    /\ [][(GraphLoaded /\ GraphLoaded') =>
            /\ NodeLabels(graphCat[G])' = NodeLabels(graphCat[G])
            /\ RelationshipTypes(graphCat[G])' = RelationshipTypes(graphCat[G])]_vars

\* The graph after training has left the embedding on it and prediction has
\* streamed its rows.
C4_Witness ==
    /\ GraphLoaded
    /\ "embedding" \in graphCat[G].props["UnclassifiedMovie"]
    /\ predictions # <<>>

\* C5: the streamed prediction holds exactly one row for each
\* UnclassifiedMovie node and no row for any other node; each row carries a
\* predicted class and class probabilities that sum to 1.
C5_OneRowPerUnclassifiedNode ==
    predictions # <<>> =>
        /\ \A n \in dataset["UnclassifiedMovie"] :
              Cardinality({r \in predictions[1] : r.nodeId = n}) = 1
        /\ \A r \in predictions[1] :
              /\ r.nodeId \in dataset["UnclassifiedMovie"]
              /\ r.predictedClass \in Genres
              /\ SumOver(r.predictedProbabilities, DOMAIN r.predictedProbabilities) = ProbScale

\* A prediction with a row whose probability is spread over the classes.
C5_Witness ==
    /\ predictions # <<>>
    /\ dataset["UnclassifiedMovie"] # {}
    /\ \E r \in predictions[1] : \A c \in Genres : r.predictedProbabilities[c] > 0

\* C6: the trained model's winning parameters are those of one of the two
\* candidates added, with the literal hyperparameters as given and the
\* ranged one resolved to a single value in its interval: penalty in
\* [0.1, 1.0] for logistic regression, minSplitSize in [2, 100] for random
\* forest.
C6_BestParametersInRange ==
    model \in DOMAIN modelCat =>
        LET m == modelCat[model]
            b == m.bestParameters
        IN /\ \/ /\ m.kind = "LogisticRegression"
                 /\ DOMAIN b = {"penalty", "maxEpochs", "patience", "tolerance", "learningRate"}
                 /\ b.penalty \in 1000..10000
                 /\ b.maxEpochs = 1000 /\ b.patience = 5 /\ b.tolerance = 1 /\ b.learningRate = 100
              \/ /\ m.kind = "RandomForest"
                 /\ DOMAIN b = {"minSplitSize", "criterion"}
                 /\ b.minSplitSize \in 2..100
                 /\ b.criterion = "ENTROPY"
           /\ pipe \in DOMAIN pipeCat =>
                 \E i \in 1..Len(pipeCat[pipe].candidates) :
                    /\ pipeCat[pipe].candidates[i].kind = m.kind
                    /\ DOMAIN pipeCat[pipe].candidates[i].params = DOMAIN b

\* best_parameters returned a random forest with minSplitSize resolved to 51.
C6_Witness ==
    /\ calls # <<>> /\ calls[Len(calls)] = "model.best_parameters" /\ pc = "predict"
    /\ modelCat[model].kind = "RandomForest"
    /\ modelCat[model].bestParameters.minSplitSize = 51

\* C7: training holds out 0.796 of the Movie population, to within one node:
\* the training set and the held-out set are disjoint, together they are the
\* Movie population, and the held-out set's share differs from 0.796 by
\* less than one node.
C7_SplitFraction ==
    trainSummary # <<>> =>
        LET s == trainSummary[1]
            pop == dataset["Movie"]
            d == 10000 * Cardinality(s.testSet) - 7960 * Cardinality(pop)
        IN /\ s.trainSet \cap s.testSet = {}
           /\ s.trainSet \cup s.testSet = pop
           /\ -10000 < d /\ d < 10000

\* Two classified movies split into one held out and one trained on.
C7_Witness ==
    /\ trainSummary # <<>>
    /\ Cardinality(dataset["Movie"]) = 2
    /\ Cardinality(trainSummary[1].testSet) = 1
    /\ Cardinality(trainSummary[1].trainSet) = 1

Released(call, cell) == Issued(call) /\ err.cell # cell

\* C2: an accessor call on a handle whose release call has returned is
\* answered "not found", whichever calls were made on the other handles
\* since.
C2_AccessAfterRelease ==
    /\ (Released("G.drop", "drop_graph") /\ probe.handle = "G") => probe.result = "NotFound"
    /\ (Released("pipe.drop", "drop_pipeline") /\ probe.handle = "pipe") => probe.result = "NotFound"
    /\ (Released("model.drop", "drop_model") /\ probe.handle = "model") => probe.result = "NotFound"

\* The graph handle read after all three releases.
C2_Witness ==
    /\ pc = "done"
    /\ probe = [handle |-> "G", result |-> "NotFound"]

-----------------------------------------------------------------------------
(* Calls on the wire.                                                      *)

\* The remote calls of the notebook, in the order of its cells.
NotebookCalls ==
    <<"GraphDataScience", "gds.server_version", "gds.graph.load_imdb",
      "G.node_labels", "G.relationship_types", "G.node_properties",
      "nodeClassification.create", "pipe.configureSplit", "G.node_labels",
      "pipe.addNodeProperty", "pipe.selectFeatures", "pipe.addLogisticRegression",
      "pipe.addRandomForest", "pipe.train", "model.metrics", "model.best_parameters",
      "model.predict_stream", "G.drop", "pipe.drop", "model.drop">>

IsPrefix(s, t) == Len(s) <= Len(t) /\ \A i \in 1..Len(s) : s[i] = t[i]

\* The calls that have reached the server: the answered ones, then the
\* outstanding ones.
Reached == calls \o awaiting

\* C11: at most one remote call is outstanding at any time; a call is sent
\* only when no earlier call awaits its response; the response received is
\* the one of the outstanding call; and the calls reach the server in the
\* notebook's cell order (connect, version check, load, introspection,
\* pipeline create, configure, train, model accessors, predict, releases).
C11_OneCallAtATime ==
    /\ [](Len(awaiting) <= 1 /\ IsPrefix(Reached, NotebookCalls))
    /\ [][Len(awaiting') > Len(awaiting) => awaiting = <<>>]_vars
    /\ [][(awaiting # <<>> /\ awaiting' = <<>>) => calls' = calls \o awaiting]_vars

\* The training call is outstanding, the thirteen calls before it answered.
C11_Witness ==
    /\ awaiting = <<"pipe.train">>
    /\ Len(calls) = 13 /\ calls[13] = "pipe.addRandomForest"

-----------------------------------------------------------------------------
(* Lifetime of the server-side resources.                                  *)

\* The handles each call takes, as receiver or as argument.
HandlesOf ==
    [c \in Cells |->
        CASE c \in {"inspect", "inspect_relationship_types", "node_properties",
                    "context_node_labels", "drop_graph"} -> {"G"}
          [] c \in {"configure_split", "add_node_property", "select_features",
                    "add_logistic_regression", "add_random_forest", "drop_pipeline"} -> {"pipe"}
          [] c = "train" -> {"pipe", "G"}
          [] c \in {"metrics", "best_parameters", "drop_model"} -> {"model"}
          [] c = "predict" -> {"model", "G"}
          [] OTHER -> {}]

Exists(h) ==
    CASE h = "G" -> G # None /\ G \in DOMAIN graphCat
      [] h = "pipe" -> pipe # None /\ pipe \in DOMAIN pipeCat
      [] h = "model" -> model # None /\ model \in DOMAIN modelCat

DropCalls == {"G.drop", "pipe.drop", "model.drop"}
Count(call) == Cardinality({i \in 1..Len(calls) : calls[i] = call})

\* The run so far has not failed: every call that takes a handle is issued
\* while its resource exists, no release is issued twice, and after the last
\* cell each resource has been released once and none is left.
FailureFreeLifetime ==
    /\ (err = NoError /\ pc \in Cells) => \A h \in HandlesOf[pc] : Exists(h)
    /\ err.kind # "NotFound"
    /\ \A d \in DropCalls : Count(d) <= 1
    /\ pc = "done" =>
          /\ \A d \in DropCalls : Count(d) = 1
          /\ graphCat = EmptyCat /\ pipeCat = EmptyCat /\ modelCat = EmptyCat

\* C12: in a failure-free run every call that takes a graph, pipeline or
\* model handle is issued while the resource exists, each of the three is
\* released exactly once and none is left after the last cell; a run that
\* stops at a failed cell issues no call after it, so that every resource it
\* created is still on the server unless a release cell before the failed
\* cell had already released it.
C12_ResourceLifetime ==
    /\ FailureFreeLifetime
    /\ pc = "failed" =>
          /\ calls[Len(calls)] = CallOf[err.cell]
          /\ G # None => (G \in DOMAIN graphCat <=> ~Released("G.drop", "drop_graph"))
          /\ pipe # None => (pipe \in DOMAIN pipeCat <=> ~Released("pipe.drop", "drop_pipeline"))
          /\ model # None => (model \in DOMAIN modelCat <=> ~Released("model.drop", "drop_model"))

\* The pipeline release failed: the graph is gone, pipeline and model stay.
C12_Witness ==
    /\ pc = "failed" /\ err.cell = "drop_pipeline"
    /\ G \notin DOMAIN graphCat
    /\ pipe \in DOMAIN pipeCat /\ model \in DOMAIN modelCat

\* C12 as stated: a run that stops at a failed cell has released none of the
\* resources it created before that cell.
C12_FailedRunReleasesNothing ==
    /\ FailureFreeLifetime
    /\ pc = "failed" => \A h \in {"G", "pipe", "model"} :
          (h = "G" /\ G # None) \/ (h = "pipe" /\ pipe # None) \/ (h = "model" /\ model # None)
             => Exists(h)

====
